---- MODULE Spec2Model ----
(***************************************************************************)
(* Crawl-to-response pipeline of the Mulan marketing agent:                *)
(*   crawler_manager.crawl_platform  -> questions table                    *)
(*   capability_checker.check_question -> agent_responses table            *)
(*   response_generator.process_question / process_pending_questions       *)
(*   response_tasks.process_pending_questions_task (the scheduled sweep)   *)
(* Every database call and every remote call is one atomic step; workers   *)
(* (Celery tasks, API requests) interleave between steps.                  *)
(* Confidence scores are in hundredths (0.70 is 70).                       *)
(***************************************************************************)
EXTENDS Integers, Sequences, FiniteSets, TLC

VARIABLES
    questions,          \* rows of table questions
    agent_responses,    \* rows of table agent_responses
    wk,                 \* local state of each pipeline worker
    postCount,          \* per question: successful platform posts (history)
    auto_post_enabled,  \* settings.auto_post_enabled
    mulan_generate,     \* what the generation endpoint of the service answers
    cr,                 \* local state of each crawl_platform run
    crawl_logs,         \* rows of table crawl_logs, in insertion order
    call,               \* a helper called on its own: arguments and result
    rl,                 \* rate limiter: Redis counters and callers of is_allowed
    ad                  \* a source adapter carrying out one operation

env == <<auto_post_enabled, mulan_generate>>

crawlv == <<cr, crawl_logs>>

lib == <<call, rl, ad>>

vars == <<questions, agent_responses, wk, postCount, env, crawlv, lib>>

----------------------------------------------------------------------------
(* Bounds *)

NumWorkers == 2
MaxQuestions == 1
MaxPosts == 2

Workers == 1..NumWorkers
QIds == 1..MaxQuestions

----------------------------------------------------------------------------
(* Configuration: settings.py and markets.py *)

min_confidence_score == 70

SweepLimit == 10

NoMarket == "none"

MarketNames == {"indie_authors", "course_creators", "hr_professionals",
                "nonprofits", "b2b_industrial", "general_video"}

MarketMinConfidence ==
    [m \in MarketNames |->
        CASE m = "indie_authors"    -> 65
          [] m = "course_creators"  -> 70
          [] m = "hr_professionals" -> 75
          [] m = "nonprofits"       -> 70
          [] m = "b2b_industrial"   -> 80
          [] m = "general_video"    -> 70]

\* get_market_config: the set holding the market's config, empty for None
get_market_config(market_name) ==
    IF market_name \in MarketNames THEN {market_name} ELSE {}

Statuses == {"pending", "processing", "answered", "ignored", "error"}

----------------------------------------------------------------------------
(* Deduplicator.generate_content_hash.  A text is a sequence of            *)
(* characters; the hash is SHA-256 of the normalised text, modelled as an  *)
(* injective tag on it.                                                    *)

IsSpace(c) == c \in {" ", "TAB"}

\* Variant: the text is hashed without content.lower()
Lower_omitted(c) == c

Lower(c) == IF c = "A" THEN "a" ELSE IF c = "B" THEN "b" ELSE c

RECURSIVE JoinSplit(_, _, _)
\* ' '.join(text.strip().split()): out is the text built so far, gap tells
\* that whitespace was seen after the last word
JoinSplit(text, out, gap) ==
    IF text = <<>> THEN out
    ELSE LET c == Head(text) IN
         IF IsSpace(c) THEN JoinSplit(Tail(text), out, out # <<>>)
         ELSE JoinSplit(Tail(text),
                        IF gap THEN out \o <<" ", c>> ELSE out \o <<c>>,
                        FALSE)

Normalized(content) ==
    JoinSplit([i \in 1..Len(content) |-> Lower(content[i])], <<>>, FALSE)

generate_content_hash(content) == <<"sha256">> \o Normalized(content)

NULL == <<>>

----------------------------------------------------------------------------
(* Storage gateway: supabase_client.py over the tables of setup_db.py *)

\* QuestionCreate keeps the fields it declares; market and content_hash are
\* not among them.  adapter_market is history only (the market of the adapter
\* that produced the draft): it is no column and no operation reads it.
QuestionCreate(platform, post_id, content, market) ==
    [platform |-> platform, post_id |-> post_id, content |-> content,
     adapter_market |-> market]

\* Variant: a table questions without its UNIQUE(platform, post_id)
questions_unique_violation_unconstrained(rows, q) == FALSE

\* UNIQUE(platform, post_id) of table questions
questions_unique_violation(rows, q) ==
    \E r \in rows : r.platform = q.platform /\ r.post_id = q.post_id

NewQuestionId(rows) == Cardinality(rows) + 1

\* create_question: the rows after the insert (unchanged when it fails)
create_question(rows, q) ==
    IF questions_unique_violation(rows, q) THEN rows
    ELSE rows \cup {[id |-> NewQuestionId(rows), platform |-> q.platform,
                     post_id |-> q.post_id, content |-> q.content,
                     status |-> "pending", content_hash |-> NULL,
                     adapter_market |-> q.adapter_market]}

\* get_question: the set holding the row, empty when there is none
get_question(question_id) == {r \in questions : r.id = question_id}

get_questions_by_status(status, limit) ==
    LET ids == {r.id : r \in {x \in questions : x.status = status}}
        RECURSIVE Asc(_)
        Asc(S) == IF S = {} THEN <<>>
                  ELSE LET m == CHOOSE x \in S : \A y \in S : x <= y
                       IN <<m>> \o Asc(S \ {m})
        all == Asc(ids)
    IN SubSeq(all, 1, IF Len(all) < limit THEN Len(all) ELSE limit)

check_question_exists(platform, post_id) ==
    \E r \in questions : r.platform = platform /\ r.post_id = post_id

check_content_hash_exists(content_hash) ==
    \E r \in questions : r.content_hash # NULL /\ r.content_hash = content_hash

update_question_status(rows, question_id, status) ==
    {IF r.id = question_id THEN [r EXCEPT !.status = status] ELSE r : r \in rows}

\* Variant: a table agent_responses without its UNIQUE(question_id)
agent_responses_unique_violation_unconstrained(rows, resp) == FALSE

\* UNIQUE(question_id) of table agent_responses
agent_responses_unique_violation(rows, resp) ==
    \E r \in rows : r.question_id = resp.question_id

\* REFERENCES questions(id)
agent_responses_fk_violation(resp) ==
    ~ \E r \in questions : r.id = resp.question_id

create_agent_response(rows, resp) ==
    IF agent_responses_unique_violation(rows, resp) \/ agent_responses_fk_violation(resp)
    THEN rows ELSE rows \cup {resp}

get_agent_response(question_id) ==
    {r \in agent_responses : r.question_id = question_id}

update_response_posted(rows, response_id, posted, posted_at) ==
    {IF r.id = response_id
       THEN [r EXCEPT !.posted = posted,
                      !.posted_at = IF posted_at # "NULL" THEN posted_at ELSE @]
       ELSE r : r \in rows}

----------------------------------------------------------------------------
(* External services *)

\* Scores the scoring endpoint can report
Confidences == {65, 69, 70, 72}

\* mulan_client.analyze_question: a reply of the endpoint, or the
\* zero-confidence dictionary it returns on any transport or HTTP error
AnalysisReplies ==
    [is_in_scope : {TRUE}, confidence_score : Confidences, failed : {FALSE}]
    \cup {[is_in_scope |-> FALSE, confidence_score |-> 72, failed |-> FALSE],
          [is_in_scope |-> FALSE, confidence_score |-> 0, failed |-> TRUE]}

\* mulan_client.generate_response: "text" is a reply with a response_text,
\* "empty" a reply without one, "fail" a transport or HTTP error
GenerationReplies == {"text", "empty", "fail"}

mulan_generate_response ==
    IF mulan_generate = "text" THEN <<"answer">> ELSE NULL

----------------------------------------------------------------------------
(* Pipeline workers: API requests and Celery tasks *)

IdleWorker ==
    [pc |-> "idle", op |-> "none", q |-> 0, question |-> {},
     agent_response |-> {}, todo |-> <<>>, processed_count |-> 0,
     analysis |-> {}, ret |-> "none", posted |-> FALSE,
     \* history of the current process_question invocation: the statuses it
     \* wrote, in order, and the steps it reached
     written |-> <<>>, reachedGenerate |-> FALSE, reachedPost |-> FALSE]

\* Variant: a class Question that declares the field market and is loaded
\* with the market the question was crawled for
question_market_declared(question) == question.adapter_market

\* question.market: class Question declares no field market and pydantic
\* drops undeclared input, so the attribute lookup raises AttributeError
question_market(question) == "AttributeError"

\* Variant: a question without a Verdict is marked ERROR before the return
process_gate_missing_marks_error(question, agent_response) ==
    IF agent_response = {} THEN "error"
    ELSE IF \E r \in agent_response : ~ r.is_in_scope THEN "ignored"
    ELSE "error"

\* Variant: PROCESSING is written before the Verdict is looked at
process_gate_claims_first(question, agent_response) ==
    IF agent_response = {} THEN "processing"
    ELSE IF \E r \in agent_response : ~ r.is_in_scope THEN "ignored"
    ELSE "error"

\* Variant: the is_in_scope test of lines 171-174 is left out
process_gate_scope_unchecked(question, agent_response) ==
    IF agent_response = {} THEN "return" ELSE "error"

\* Variant: the except clause of lines 218-221 returns without a write
process_gate_except_silent(question, agent_response) ==
    IF agent_response = {} THEN "return"
    ELSE IF \E r \in agent_response : ~ r.is_in_scope THEN "ignored"
    ELSE "return"

\* Variant: the except clause of lines 218-221 writes IGNORED
process_gate_except_ignores(question, agent_response) ==
    IF agent_response = {} THEN "return"
    ELSE "ignored"

\* process_question lines 166-187: what follows the lookup of the Verdict
\* (a set, empty when there is none): "return" is the early return of line
\* 169, anything else the status written; "error" is the write of the except
\* clause (line 220)
process_gate(question, agent_response) ==
    IF agent_response = {} THEN "return"
    ELSE IF \E r \in agent_response : ~ r.is_in_scope THEN "ignored"
    ELSE LET market == question_market(question) IN
         IF market = "AttributeError" THEN "error"
         ELSE LET market_config == get_market_config(market)
                  min_confidence ==
                      IF market_config # {} THEN MarketMinConfidence[market]
                      ELSE min_confidence_score
              IN IF \E r \in agent_response : r.confidence_score < min_confidence
                 THEN "ignored" ELSE "processing"

\* Texts are sequences of pieces; a sentence the code appends is one piece.
\* The disclosure sentence of _format_response line 104
Disclosure ==
    "*Disclosure: I work with Mulan AI, which offers tools for creating videos easily.*"

\* ResponseGenerator._format_response; the empty sequence stands for a
\* workflow_link that is None or ""
format_response(response_text, workflow_link, market) ==
    LET formatted == response_text
        linked == IF workflow_link # <<>>
                  THEN formatted \o <<"\n\nYou might find this helpful: ">>
                                 \o workflow_link
                  ELSE formatted
    IN linked \o <<"\n\n", Disclosure>>

\* MarketConfig.workflow_examples, in the order of the dictionary: pairs of
\* a key, with its underscores already replaced by spaces, and a URL.  A text
\* is a sequence of pieces and a key is the sequence of its words and spaces
WorkflowExamples ==
    [m \in MarketNames |->
        CASE m = "indie_authors" ->
                 << <<<<"book", " ", "trailer">>, "https://app.mulan.ai/workflow/book-trailer">>,
                    <<<<"author", " ", "intro">>, "https://app.mulan.ai/workflow/author-intro">>,
                    <<<<"book", " ", "teaser">>, "https://app.mulan.ai/workflow/book-teaser">> >>
          [] m = "course_creators" ->
                 << <<<<"lecture", " ", "video">>, "https://app.mulan.ai/workflow/lecture">>,
                    <<<<"course", " ", "promo">>, "https://app.mulan.ai/workflow/course-promo">>,
                    <<<<"explainer">>, "https://app.mulan.ai/workflow/explainer">> >>
          [] m = "hr_professionals" ->
                 << <<<<"onboarding">>, "https://app.mulan.ai/workflow/onboarding">>,
                    <<<<"training">>, "https://app.mulan.ai/workflow/training">>,
                    <<<<"compliance">>, "https://app.mulan.ai/workflow/compliance">> >>
          [] m = "nonprofits" ->
                 << <<<<"fundraising">>, "https://app.mulan.ai/workflow/fundraising">>,
                    <<<<"impact", " ", "story">>, "https://app.mulan.ai/workflow/impact-story">>,
                    <<<<"volunteer">>, "https://app.mulan.ai/workflow/volunteer-recruitment">> >>
          [] m = "b2b_industrial" ->
                 << <<<<"product", " ", "demo">>, "https://app.mulan.ai/workflow/product-demo">>,
                    <<<<"technical", " ", "docs">>, "https://app.mulan.ai/workflow/technical-docs">>,
                    <<<<"sales", " ", "enablement">>, "https://app.mulan.ai/workflow/sales-enablement">> >>
          [] m = "general_video" ->
                 << <<<<"general", " ", "video">>, "https://app.mulan.ai/workflow/video-creation">> >>]

\* str.lower on one piece of a text
lower_piece(piece) ==
    CASE piece = "Book"    -> "book"
      [] piece = "TRAILER" -> "trailer"
      [] piece = "Author"  -> "author"
      [] OTHER             -> piece

\* str.lower
lower(text) == [i \in 1..Len(text) |-> lower_piece(text[i])]

\* Python's  phrase in text
occurs_in(phrase, text) ==
    \E i \in 1..(Len(text) - Len(phrase) + 1) :
        SubSeq(text, i, i + Len(phrase) - 1) = phrase

\* Variant: an unknown market gets the generic link as well
select_workflow_link_always(verdict_link, market_config, selected) ==
    IF verdict_link = <<>> THEN selected ELSE verdict_link

\* generate_response lines 42-47: the Verdict's link, or the link selected
\* for the market when the Verdict has none and the market is configured
select_workflow_link(verdict_link, market_config, selected) ==
    IF verdict_link = <<>> /\ market_config # {} THEN selected
    ELSE verdict_link

\* get_workflow_link_for_context; the result is the text of one URL
get_workflow_link_for_context(market_name, question_text) ==
    LET market == get_market_config(market_name) IN
    IF market = {} \/ WorkflowExamples[market_name] = <<>>
    THEN <<"https://app.mulan.ai">>
    ELSE LET examples == WorkflowExamples[market_name]
             question_lower == lower(question_text)
             hits == {i \in 1..Len(examples) :
                          occurs_in(examples[i][1], question_lower)}
         IN IF hits # {}
            THEN <<examples[CHOOSE i \in hits : \A j \in hits : i <= j][2]>>
            ELSE <<examples[1][2]>>

\* generate_response lines 38-47: the link that goes into the reply
workflow_link_of(verdict_link, market, question_text) ==
    select_workflow_link(verdict_link, get_market_config(market),
                         get_workflow_link_for_context(market, question_text))

\* ResponseGenerator.generate_response: the formatted text, NULL for None
generate_response(question, agent_response) ==
    LET market == question_market(question) IN
    IF market = "AttributeError" THEN NULL
    ELSE LET workflow_link ==
                 workflow_link_of(agent_response.workflow_link, market,
                                  question.content)
             response_text == mulan_generate_response
         IN IF response_text = <<>> THEN NULL
            ELSE format_response(response_text, workflow_link, market)

\* CrawlerManager.get_crawler as called with market=...: QuoraCrawler.__init__
\* takes no market_name, so building it raises TypeError
get_crawler(platform) ==
    CASE platform = "reddit" -> "RedditCrawler"
      [] platform = "quora"  -> "TypeError"
      [] OTHER               -> "None"

\* ResponseGenerator.post_response lines 119-133: can the platform call be made
post_response_reaches_platform(question) ==
    /\ question_market(question) # "AttributeError"
    /\ get_crawler(question.platform) = "RedditCrawler"

Returned(rec, value) == [rec EXCEPT !.pc = "pq_return", !.ret = value]

StartProcess(w, question_id) ==
    /\ wk[w].pc = "idle"
    /\ wk' = [wk EXCEPT ![w] = [IdleWorker EXCEPT !.pc = "pq_get_question",
                                                  !.op = "process",
                                                  !.q = question_id]]
    /\ UNCHANGED <<questions, agent_responses, postCount, env, lib, crawlv>>

\* lines 161-164
pq_get_question(w) ==
    LET question == get_question(wk[w].q) IN
    /\ wk' = [wk EXCEPT ![w] =
                IF question = {} THEN Returned(@, "False")
                ELSE [@ EXCEPT !.pc = "pq_get_response",
                               !.question = question, !.analysis = {},
                               !.written = <<>>, !.reachedGenerate = FALSE,
                               !.reachedPost = FALSE, !.posted = FALSE]]
    /\ UNCHANGED <<questions, agent_responses, postCount, env, lib, crawlv>>

\* line 166
pq_get_response(w) ==
    /\ wk' = [wk EXCEPT ![w] =
                [@ EXCEPT !.pc = "pq_gate",
                          !.agent_response = get_agent_response(wk[w].q)]]
    /\ UNCHANGED <<questions, agent_responses, postCount, env, lib, crawlv>>

\* lines 167-187 and 218-221
pq_gate(w) ==
    LET question == CHOOSE r \in wk[w].question : TRUE
        status == process_gate(question, wk[w].agent_response)
    IN
    /\ questions' = IF status = "return" THEN questions
                    ELSE update_question_status(questions, wk[w].q, status)
    /\ wk' = [wk EXCEPT ![w] =
                IF status = "return" THEN Returned(@, "False")
                ELSE IF status = "processing"
                THEN [@ EXCEPT !.pc = "pq_generate",
                               !.written = Append(@, status)]
                ELSE Returned([@ EXCEPT !.written = Append(@, status)], "False")]
    /\ UNCHANGED <<agent_responses, postCount, env, lib, crawlv>>

\* lines 189-198 and 211-216
pq_generate(w) ==
    LET question == CHOOSE r \in wk[w].question : TRUE
        response_text ==
            generate_response(question, CHOOSE r \in wk[w].agent_response : TRUE)
        local == {[r EXCEPT !.response_text = response_text] :
                      r \in wk[w].agent_response}
    IN
    IF response_text = NULL
    THEN /\ questions' = update_question_status(questions, wk[w].q, "error")
         /\ wk' = [wk EXCEPT ![w] =
                     Returned([@ EXCEPT !.reachedGenerate = TRUE,
                                        !.written = Append(@, "error")], "False")]
         /\ UNCHANGED <<agent_responses, postCount, env, lib, crawlv>>
    ELSE IF auto_post_enabled
    THEN /\ wk' = [wk EXCEPT ![w] = [@ EXCEPT !.pc = "pq_post",
                                              !.reachedGenerate = TRUE,
                                              !.agent_response = local]]
         /\ UNCHANGED <<questions, agent_responses, postCount, env, lib, crawlv>>
    ELSE /\ questions' = update_question_status(questions, wk[w].q, "answered")
         /\ wk' = [wk EXCEPT ![w] =
                     Returned([@ EXCEPT !.reachedGenerate = TRUE,
                                        !.written = Append(@, "answered"),
                                        !.agent_response = local], "True")]
         /\ UNCHANGED <<agent_responses, postCount, env, lib, crawlv>>

\* post_response lines 119-133 and 140-147: the platform call and its result
pq_post(w) ==
    LET question == CHOOSE r \in wk[w].question : TRUE IN
    \E success \in IF post_response_reaches_platform(question)
                   THEN BOOLEAN ELSE {FALSE} :
       /\ success => postCount[wk[w].q] < MaxPosts
       /\ postCount' = IF success
                       THEN [postCount EXCEPT ![wk[w].q] = @ + 1]
                       ELSE postCount
       /\ wk' = [wk EXCEPT ![w] =
                   [@ EXCEPT !.pc = IF success THEN "pq_post_status"
                                    ELSE "pq_mark_posted",
                             !.reachedPost = TRUE, !.posted = FALSE]]
       /\ UNCHANGED <<questions, agent_responses, env, lib, crawlv>>

\* post_response lines 135-139
pq_post_status(w) ==
    /\ questions' = update_question_status(questions, wk[w].q, "answered")
    /\ wk' = [wk EXCEPT ![w] = [@ EXCEPT !.pc = "pq_mark_posted",
                                         !.written = Append(@, "answered"),
                                         !.posted = TRUE]]
    /\ UNCHANGED <<agent_responses, postCount, env, lib, crawlv>>

\* lines 205-210 and 216
pq_mark_posted(w) ==
    LET agent_response == CHOOSE r \in wk[w].agent_response : TRUE IN
    /\ agent_responses' =
           update_response_posted(agent_responses, agent_response.id,
                                  wk[w].posted,
                                  IF wk[w].posted THEN "now" ELSE "NULL")
    /\ wk' = [wk EXCEPT ![w] = Returned(@, "True")]
    /\ UNCHANGED <<questions, postCount, env, lib, crawlv>>

\* ResponseGenerator.process_question: the next step of worker w's invocation
process_question(w) ==
    CASE wk[w].pc = "pq_get_question" -> pq_get_question(w)
      [] wk[w].pc = "pq_get_response" -> pq_get_response(w)
      [] wk[w].pc = "pq_gate"         -> pq_gate(w)
      [] wk[w].pc = "pq_generate"     -> pq_generate(w)
      [] wk[w].pc = "pq_post"         -> pq_post(w)
      [] wk[w].pc = "pq_post_status"  -> pq_post_status(w)
      [] wk[w].pc = "pq_mark_posted"  -> pq_mark_posted(w)
      [] OTHER                        -> FALSE

\* A finished invocation hands its result back to its caller
Return(w) ==
    /\ \/ wk[w].pc = "done"
       \/ wk[w].pc = "pq_return" /\ wk[w].op = "process"
    /\ wk' = [wk EXCEPT ![w] = IdleWorker]
    /\ UNCHANGED <<questions, agent_responses, postCount, env, lib, crawlv>>

----------------------------------------------------------------------------
(* Capability scorer: capability_checker.py *)

\* AgentResponse.id default factory uuid4.  Only equality of ids is ever
\* used, so the id of a response that becomes a row is named after its
\* question, and a response whose insert is rejected carries 0, which is
\* the id of no row.
NewResponseId(question_id) ==
    IF \E r \in agent_responses : r.question_id = question_id \/ r.id = question_id
    THEN 0 ELSE question_id

\* check_question lines 39-59: the AgentResponse built from the analysis.
\* error_message is not passed and keeps its default None; the "error" entry
\* of the analysis (failed) is not read
new_agent_response(question_id, analysis) ==
    LET meets_threshold == analysis.confidence_score >= min_confidence_score IN
    [id |-> NewResponseId(question_id), question_id |-> question_id,
     is_in_scope |-> analysis.is_in_scope /\ meets_threshold,
     confidence_score |-> analysis.confidence_score,
     error_message |-> "NULL",
     \* analysis.get("suggested_workflow") of a reply that suggests none
     workflow_link |-> NULL,
     response_text |-> NULL, posted |-> FALSE, posted_at |-> "NULL"]

\* What the caller of check_question does with the Verdict it got:
\* response_tasks lines 122-131 (the sweep) and 40-48 (the check task)
AfterCheck(rec, analysis, agent_response) ==
    IF rec.op = "sweep"
    THEN [rec EXCEPT !.analysis = {analysis},
                     !.agent_response = {agent_response},
                     !.pc = IF agent_response.is_in_scope
                            THEN "pq_get_question" ELSE "sw_ignore"]
    ELSE [rec EXCEPT !.analysis = {analysis},
                     !.agent_response = {agent_response}, !.pc = "done",
                     !.ret = IF agent_response.is_in_scope THEN "True" ELSE "False"]

\* CapabilityChecker.check_question: the analysis call, then one insert
check_question(w) ==
    /\ wk[w].pc = "cc_check"
    /\ \E analysis \in AnalysisReplies :
         LET agent_response == new_agent_response(wk[w].q, analysis) IN
         /\ agent_responses' = create_agent_response(agent_responses, agent_response)
         /\ wk' = [wk EXCEPT ![w] = AfterCheck(@, analysis, agent_response)]
    /\ UNCHANGED <<questions, postCount, env, lib, crawlv>>

\* check_question_capability_task, lines 30-35
StartCheck(w, question_id) ==
    /\ wk[w].pc = "idle"
    /\ wk' = [wk EXCEPT ![w] =
                IF get_question(question_id) = {}
                THEN [IdleWorker EXCEPT !.pc = "done", !.op = "check",
                                        !.q = question_id, !.ret = "error"]
                ELSE [IdleWorker EXCEPT !.pc = "cc_check", !.op = "check",
                                        !.q = question_id]]
    /\ UNCHANGED <<questions, agent_responses, postCount, env, lib, crawlv>>

----------------------------------------------------------------------------
(* The scheduled sweep: response_tasks.process_pending_questions_task *)

\* lines 103-110
StartSweep(w) ==
    /\ wk[w].pc = "idle"
    /\ wk' = [wk EXCEPT ![w] =
                [IdleWorker EXCEPT !.pc = "sw_next", !.op = "sweep",
                    !.todo = get_questions_by_status("pending", SweepLimit)]]
    /\ UNCHANGED <<questions, agent_responses, postCount, env, lib, crawlv>>

\* lines 112-129: the next loaded question and the lookup of its Verdict
sw_next(w) ==
    /\ wk[w].pc = "sw_next"
    /\ wk' = [wk EXCEPT ![w] =
                IF wk[w].todo = <<>>
                THEN [@ EXCEPT !.pc = "done", !.ret = "count", !.q = 0,
                               !.question = {}, !.agent_response = {}]
                ELSE LET question_id == Head(wk[w].todo)
                         agent_response == get_agent_response(question_id)
                     IN [@ EXCEPT !.q = question_id,
                                  !.todo = Tail(@),
                                  !.question = {},
                                  !.agent_response = agent_response,
                                  !.pc = IF agent_response = {} THEN "cc_check"
                                         ELSE IF \E r \in agent_response : r.is_in_scope
                                         THEN "pq_get_question"
                                         ELSE "sw_ignore"]]
    /\ UNCHANGED <<questions, agent_responses, postCount, env, lib, crawlv>>

\* lines 129-131
sw_ignore(w) ==
    /\ wk[w].pc = "sw_ignore"
    /\ questions' = update_question_status(questions, wk[w].q, "ignored")
    /\ wk' = [wk EXCEPT ![w] = [@ EXCEPT !.pc = "sw_next", !.analysis = {}]]
    /\ UNCHANGED <<agent_responses, postCount, env, lib, crawlv>>

\* lines 125-128
sw_after_process(w) ==
    /\ wk[w].pc = "pq_return"
    /\ wk[w].op = "sweep"
    /\ wk' = [wk EXCEPT ![w] =
                [@ EXCEPT !.pc = "sw_next",
                          !.processed_count =
                              IF wk[w].ret = "True" THEN @ + 1 ELSE @]]
    /\ UNCHANGED <<questions, agent_responses, postCount, env, lib, crawlv>>

\* ResponseGenerator.process_pending_questions: get_questions_by_status is
\* called with market=..., a keyword it does not take; the TypeError is caught
\* by the except clause of lines 260-262 and 0 is returned
process_pending_questions(w) ==
    /\ wk[w].pc = "idle"
    /\ wk' = [wk EXCEPT ![w] = [IdleWorker EXCEPT !.pc = "done",
                                                  !.op = "process_pending",
                                                  !.ret = "count"]]
    /\ UNCHANGED <<questions, agent_responses, postCount, env, lib, crawlv>>

----------------------------------------------------------------------------
(* Ingestion as seen by the pipeline: a draft that survived a crawl run is *)
(* inserted by create_question.                                            *)

IngestPool ==
    { QuestionCreate("reddit", "p1", <<"a">>, "indie_authors"),
      QuestionCreate("reddit", "p2", <<"b">>, "course_creators"),
      QuestionCreate("reddit", "p3", <<"c">>, "hr_professionals"),
      QuestionCreate("quora",  "p1", <<"a">>, NoMarket) }

StoreQuestion(draft) ==
    /\ Cardinality(questions) < MaxQuestions
    /\ ~ questions_unique_violation(questions, draft)
    /\ questions' = create_question(questions, draft)
    /\ UNCHANGED <<agent_responses, wk, postCount, env, lib, crawlv>>

----------------------------------------------------------------------------
(* Crawl orchestrator: crawler_manager.crawl_platform *)

NumCrawlers == 2
MaxDrafts == 2
MaxCrawlLogs == 2
MaxMarketDrafts == 1

Crawlers == 1..NumCrawlers

CrawlPlatforms == {"reddit", "quora", "linkedin"}

CrawlMarkets == {NoMarket, "indie_authors"}

\* The markets crawl_market is called with; the last one is not configured
MarketRuns == {"indie_authors", "course_creators", "no_such_market"}

\* MarketConfig.platforms
MarketPlatforms ==
    [m \in MarketNames |->
        CASE m = "indie_authors"    -> <<"reddit", "quora">>
          [] m = "course_creators"  -> <<"reddit", "twitter">>
          [] m = "hr_professionals" -> <<"reddit", "linkedin">>
          [] m = "nonprofits"       -> <<"reddit", "facebook">>
          [] m = "b2b_industrial"   -> <<"reddit", "linkedin">>
          [] m = "general_video"    -> <<"reddit", "quora">>]

PostIds == {"p1", "p2"}

Contents == { <<"A">>, <<"a", " ">>, <<"b">> }

\* RedditCrawler._submission_to_question line 262
FallbackMarket == "general_video"

\* The drafts a RedditCrawler built for market can return
RedditDrafts(market) ==
    { QuestionCreate("reddit", post_id, content,
                     IF market = NoMarket THEN FallbackMarket ELSE market) :
          post_id \in PostIds, content \in Contents }

RECURSIVE SeqsUpTo(_, _)
SeqsUpTo(S, n) ==
    IF n = 0 THEN {<<>>}
    ELSE LET shorter == SeqsUpTo(S, n - 1)
         IN shorter \cup {Append(t, x) : t \in shorter, x \in S}

\* BaseCrawler.crawl: what fetch_questions returned, [] when it raised
FetchResults(market) == SeqsUpTo(RedditDrafts(market), MaxDrafts)

\* The same for one platform of a crawl_market run
MarketFetchResults(market) == SeqsUpTo(RedditDrafts(market), MaxMarketDrafts)

IdleCrawler ==
    [pc |-> "idle", op |-> "none", platform |-> "none", market |-> NoMarket,
     todo |-> <<>>, questions |-> <<>>,
     items_found |-> 0, stored_count |-> 0, duplicate_count |-> 0,
     result |-> "none", logged |-> 0,
     \* history of the current crawl_platform call: fetch_questions raised,
     \* and the number of rows its create_question calls inserted
     fetch_raised |-> FALSE, persisted |-> 0,
     \* and how many drafts the (platform, post_id) check stopped, how many
     \* content hash lookups and how many create_question calls it made
     id_hits |-> 0, hash_checks |-> 0, create_calls |-> 0]

\* BaseCrawler.crawl: the drafts of fetch_questions, [] when it raised
crawl(raised, fetched) == IF raised THEN <<>> ELSE fetched

\* crawl_platform lines 94-115 for the run rec: the adapter is built, the log
\* entry prepared and the drafts fetched.  An unknown platform gives the
\* error dictionary of line 96, the TypeError of get_crawler leaves the run
CrawlPlatformBegins(rec, platform, raised, fetched) ==
    CASE get_crawler(platform) = "RedditCrawler" ->
             LET questions_ == crawl(raised, fetched) IN
             [rec EXCEPT !.pc = "cp_check_exists", !.platform = platform,
                         !.questions = questions_,
                         !.items_found = Len(questions_),
                         !.stored_count = 0, !.duplicate_count = 0,
                         !.fetch_raised = raised, !.persisted = 0,
                         !.id_hits = 0, !.hash_checks = 0, !.create_calls = 0]
      [] get_crawler(platform) = "TypeError" ->
             [rec EXCEPT !.pc = "done", !.platform = platform,
                         !.result = "raised"]
      [] OTHER ->
             [rec EXCEPT !.pc = IF rec.op = "crawl_market" THEN "cm_next"
                                                            ELSE "done",
                         !.platform = platform, !.result = "error"]

\* crawl_platform called on its own
StartCrawl(c, platform, market) ==
    /\ cr[c].pc = "idle"
    /\ Len(crawl_logs) + Cardinality({d \in Crawlers : cr[d].pc \notin {"idle", "done"}})
          < MaxCrawlLogs
    /\ \E fetched \in FetchResults(market), raised \in BOOLEAN :
         /\ get_crawler(platform) # "RedditCrawler" => fetched = <<>> /\ ~ raised
         /\ raised => fetched = <<>>
         /\ cr' = [cr EXCEPT ![c] =
                     CrawlPlatformBegins([IdleCrawler EXCEPT
                                              !.op = "crawl_platform",
                                              !.market = market],
                                         platform, raised, fetched)]
    /\ UNCHANGED <<questions, agent_responses, wk, postCount, env, lib, crawl_logs>>

\* crawl_market lines 53-62
StartMarketCrawl(c, market) ==
    /\ cr[c].pc = "idle"
    /\ Len(crawl_logs) + Cardinality({d \in Crawlers : cr[d].pc \notin {"idle", "done"}})
          < MaxCrawlLogs
    /\ cr' = [cr EXCEPT ![c] =
                IF get_market_config(market) = {}
                THEN [IdleCrawler EXCEPT !.pc = "done", !.op = "crawl_market",
                                         !.market = market, !.result = "error"]
                ELSE [IdleCrawler EXCEPT !.pc = "cm_next", !.op = "crawl_market",
                                         !.market = market,
                                         !.todo = MarketPlatforms[market]]]
    /\ UNCHANGED <<questions, agent_responses, wk, postCount, env, lib, crawl_logs>>

\* crawl_market lines 64-80: the next platform of the loop, or the return
cm_next(c) ==
    /\ cr[c].pc = "cm_next"
    /\ \E fetched \in MarketFetchResults(cr[c].market), raised \in BOOLEAN :
         /\ (cr[c].todo = <<>> \/ get_crawler(Head(cr[c].todo)) # "RedditCrawler")
               => fetched = <<>> /\ ~ raised
         /\ raised => fetched = <<>>
         /\ cr' = [cr EXCEPT ![c] =
                     IF cr[c].todo = <<>>
                     THEN [@ EXCEPT !.pc = "done", !.result = "ok"]
                     ELSE CrawlPlatformBegins([@ EXCEPT !.todo = Tail(@)],
                                              Head(cr[c].todo), raised, fetched)]
    /\ UNCHANGED <<questions, agent_responses, wk, postCount, env, lib, crawl_logs>>

NextDraft(rec) == [rec EXCEPT !.questions = Tail(@), !.pc = "cp_check_exists"]

\* Variant: no continue after the (platform, post_id) check
after_exists_check_falls_through(exists) == "cp_check_hash"

\* lines 128-131: continue with the next draft, or go on to the hash check
after_exists_check(exists) == IF exists THEN "continue" ELSE "cp_check_hash"

\* lines 121-131
cp_check_exists(c) ==
    /\ cr[c].pc = "cp_check_exists"
    /\ cr[c].questions # <<>>
    /\ LET question == Head(cr[c].questions)
           exists == check_question_exists(question.platform, question.post_id)
           counted == IF exists
                      THEN [cr[c] EXCEPT !.duplicate_count = @ + 1,
                                         !.id_hits = @ + 1]
                      ELSE cr[c]
       IN cr' = [cr EXCEPT ![c] =
                   IF after_exists_check(exists) = "continue"
                   THEN NextDraft(counted)
                   ELSE [counted EXCEPT !.pc = "cp_check_hash"]]
    /\ UNCHANGED <<questions, agent_responses, wk, postCount, env, lib, crawl_logs>>

\* lines 133-140
cp_check_hash(c) ==
    /\ cr[c].pc = "cp_check_hash"
    /\ LET question == Head(cr[c].questions)
           content_hash == generate_content_hash(question.content)
       IN cr' = [cr EXCEPT ![c] =
                   IF check_content_hash_exists(content_hash)
                   THEN NextDraft([@ EXCEPT !.duplicate_count = @ + 1,
                                            !.hash_checks = @ + 1])
                   ELSE [@ EXCEPT !.pc = "cp_create",
                                  !.hash_checks = @ + 1]]
    /\ UNCHANGED <<questions, agent_responses, wk, postCount, env, lib, crawl_logs>>

\* Variant: every create_question call is counted as stored
stored_count_after_attempt(stored_count, stored_question) == stored_count + 1

\* lines 144-145: stored_question is the truth value of create_question's result
stored_count_after(stored_count, stored_question) ==
    IF stored_question THEN stored_count + 1 ELSE stored_count

\* lines 142-145
cp_create(c) ==
    /\ cr[c].pc = "cp_create"
    /\ LET question == Head(cr[c].questions) IN
       /\ questions' = create_question(questions, question)
       /\ cr' = [cr EXCEPT ![c] =
                   NextDraft([@ EXCEPT
                       !.stored_count =
                           stored_count_after(@, create_question(questions, question)
                                                     # questions),
                       !.persisted = IF questions' # questions THEN @ + 1 ELSE @,
                       !.create_calls = @ + 1])]
    /\ UNCHANGED <<agent_responses, wk, postCount, env, lib, crawl_logs>>

\* lines 147-163
cp_log(c) ==
    /\ cr[c].pc = "cp_check_exists"
    /\ cr[c].questions = <<>>
    /\ crawl_logs' = Append(crawl_logs,
                            [platform |-> cr[c].platform, status |-> "success",
                             items_found |-> cr[c].items_found,
                             items_stored |-> cr[c].stored_count,
                             \* history: how many rows the run inserted, and
                             \* whether fetch_questions raised
                             persisted |-> cr[c].persisted,
                             fetch_raised |-> cr[c].fetch_raised])
    /\ cr' = [cr EXCEPT ![c] =
                [@ EXCEPT !.pc = IF cr[c].op = "crawl_market" THEN "cm_next" ELSE "done",
                          !.result = "ok", !.logged = @ + 1]]
    /\ UNCHANGED <<questions, agent_responses, wk, postCount, env, lib>>

ReturnCrawl(c) ==
    /\ cr[c].pc = "done"
    /\ cr' = [cr EXCEPT ![c] = IdleCrawler]
    /\ UNCHANGED <<questions, agent_responses, wk, postCount, env, lib, crawl_logs>>

----------------------------------------------------------------------------

(* Helpers called on their own, on arguments drawn from small sets *)

NoCall == [fn |-> "none", done |-> FALSE]

\* Replies of the generation endpoint that carry a response_text
ResponseTexts ==
    { <<"answer">>, <<"answer", "more">>, <<"answer", Disclosure>>,
      <<Disclosure>> }

WorkflowLinks == { <<>>, <<"https://app.mulan.ai">> }

FormatCalls ==
    [fn : {"_format_response"}, response_text : ResponseTexts,
     workflow_link : WorkflowLinks, market : {NoMarket, "indie_authors"},
     result : {<<>>}, done : {FALSE}]

\* Question texts for the choice of a workflow link
QuestionTexts ==
    { <<"a">>, <<"my", " ", "Book", " ", "TRAILER">>, <<"book", "trailer">>,
      <<"Author", " ", "intro", " ", "book", " ", "teaser">>,
      <<"a", " ", "book", " ", "teaser">>, <<"general", " ", "video">> }

LinkCalls ==
    [fn : {"workflow_link"},
     verdict_link : { <<>>, <<"https://mulan.ai/workflow/123">> },
     market : {"indie_authors", "general_video", "no_such_market"},
     question_text : QuestionTexts,
     result : {<<>>}, done : {FALSE}]

MaxTextLen == 3

Chars == {"A", "a", "b", " ", "TAB"}

Texts == UNION {[1..n -> Chars] : n \in 0..MaxTextLen}

HashCalls ==
    [fn : {"generate_content_hash"}, content : Texts,
     result : {<<>>}, done : {FALSE}]

\* RedditCrawler._is_relevant line 204: the age limit in days
MaxAgeDays == 7

\* RedditCrawler._is_relevant.  A submission is its age in hours, its score
\* and whether title+selftext holds a keyword of the crawler or a question
\* marker; keywords tells whether the crawler has a keyword list
is_relevant(submission, min_upvotes, keywords) ==
    LET post_age_days == submission.age_hours \div 24
        has_question == submission.has_question
    IN IF post_age_days > MaxAgeDays THEN FALSE
       ELSE IF submission.score < min_upvotes THEN FALSE
       ELSE IF keywords /\ ~ submission.has_keyword THEN FALSE
       ELSE TRUE

\* QuoraCrawler._is_relevant_question: a keyword of its fixed list
is_relevant_question(elem) == elem.has_relevant_keyword

\* QuoraCrawler._extract_questions_from_page lines 134-140: is the page
\* element (with text and href) turned into a draft
quora_extracts(elem) ==
    IF ~ elem.has_question THEN FALSE
    ELSE IF ~ is_relevant_question(elem) THEN FALSE
    ELSE TRUE

\* Posts as the platform shows them
Submissions ==
    [age_hours : {0, 168, 191, 192}, score : {0, 1, 3},
     has_keyword : BOOLEAN, has_relevant_keyword : BOOLEAN,
     has_question : BOOLEAN]

RelevanceCalls ==
    [fn : {"_is_relevant", "_extract_questions_from_page"},
     submission : Submissions, min_upvotes : {1, 3}, keywords : BOOLEAN,
     result : {FALSE}, done : {FALSE}]

Calls(c) ==
    \/ c \in FormatCalls
    \/ c \in HashCalls
    \/ c \in RelevanceCalls
    \/ c \in LinkCalls

apply_format_response ==
    /\ call.fn = "_format_response" /\ ~ call.done
    /\ call' = [call EXCEPT
                  !.result = format_response(call.response_text,
                                             call.workflow_link, call.market),
                  !.done = TRUE]
    /\ UNCHANGED <<questions, agent_responses, wk, postCount, env, crawlv, rl, ad>>

apply_workflow_link ==
    /\ call.fn = "workflow_link" /\ ~ call.done
    /\ call' = [call EXCEPT
                  !.result = workflow_link_of(call.verdict_link, call.market,
                                              call.question_text),
                  !.done = TRUE]
    /\ UNCHANGED <<questions, agent_responses, wk, postCount, env, crawlv, rl, ad>>

apply_generate_content_hash ==
    /\ call.fn = "generate_content_hash" /\ ~ call.done
    /\ call' = [call EXCEPT !.result = generate_content_hash(call.content),
                            !.done = TRUE]
    /\ UNCHANGED <<questions, agent_responses, wk, postCount, env, crawlv, rl, ad>>

apply_is_relevant ==
    /\ call.fn = "_is_relevant" /\ ~ call.done
    /\ call' = [call EXCEPT
                  !.result = is_relevant(call.submission, call.min_upvotes,
                                         call.keywords),
                  !.done = TRUE]
    /\ UNCHANGED <<questions, agent_responses, wk, postCount, env, crawlv, rl, ad>>

apply_quora_extracts ==
    /\ call.fn = "_extract_questions_from_page" /\ ~ call.done
    /\ call' = [call EXCEPT !.result = quora_extracts(call.submission),
                            !.done = TRUE]
    /\ UNCHANGED <<questions, agent_responses, wk, postCount, env, crawlv, rl, ad>>

----------------------------------------------------------------------------
(* RateLimiter.is_allowed over Redis.  Every Redis command is one atomic    *)
(* step; callers in different orchestrator runs interleave between them.   *)

NumCallers == 2
MaxCalls == 4
NumWindows == 2

Callers == 1..NumCallers

\* Minutes of the clock; _get_key names the counter after the minute
Windows == 1..NumWindows

\* settings.max_requests_per_minute, set to a small value
max_requests == 2

IdleCaller ==
    [pc |-> "idle", op |-> "none", key |-> 0, current_count |-> 0,
     ret |-> "none", failed |-> FALSE]

\* redis[k] = 0 stands for an absent key.  allowed and failopen count, per
\* minute key, the calls that returned True with Redis reachable and with
\* Redis failing (history).  A bounded run has at most MaxCalls calls within
\* NumWindows minutes and keeps this history; an unbounded run goes on for
\* ever, its minutes numbered modulo NumWindows, and keeps none
RateInit ==
    rl = [bounded |-> TRUE, now |-> 1,
          redis |-> [k \in Windows |-> 0],
          callers |-> [c \in Callers |-> IdleCaller],
          calls |-> 0,
          allowed |-> [k \in Windows |-> 0],
          failopen |-> [k \in Windows |-> 0]]

\* Variant: a Redis error refuses the request
on_redis_error_refuses == "False"

\* is_allowed lines 53-56: what the except clause returns
on_redis_error == "True"

\* is_allowed has returned value to caller c
AllowReturned(c, value, failed) ==
    [IdleCaller EXCEPT !.pc = "returned", !.op = rl.callers[c].op,
                       !.ret = value, !.failed = failed]

\* A crawler calls is_allowed or wait_if_needed
rl_start(c, op) ==
    /\ rl.callers[c].pc = "idle"
    /\ rl.bounded => rl.calls < MaxCalls
    /\ rl' = [rl EXCEPT !.calls = IF rl.bounded THEN @ + 1 ELSE @,
                        !.callers[c] = [IdleCaller EXCEPT !.pc = "get",
                                                          !.op = op]]
    /\ UNCHANGED <<questions, agent_responses, wk, postCount, env, crawlv, call, ad>>

\* lines 35-38: the key of the current minute and redis_client.get(key);
\* lines 53-56: any Redis error lets the request through
rl_get(c) ==
    /\ rl.callers[c].pc = "get"
    /\ \E reachable \in BOOLEAN :
         rl' = IF reachable
               THEN [rl EXCEPT !.callers[c] =
                                   [@ EXCEPT !.pc = "got", !.key = rl.now,
                                             !.current_count = rl.redis[rl.now]]]
               ELSE [rl EXCEPT !.failopen[rl.now] =
                                   IF on_redis_error = "True" /\ rl.bounded
                                   THEN @ + 1 ELSE @,
                               !.callers[c] =
                                   AllowReturned(c, on_redis_error, TRUE)]
    /\ UNCHANGED <<questions, agent_responses, wk, postCount, env, crawlv, call, ad>>

\* lines 40-51: setex(key, 60, 1), or the refusal, or incr(key); a Redis
\* error in setex or incr is caught by lines 53-56 as well
rl_decide(c) ==
    LET me == rl.callers[c] IN
    /\ me.pc = "got"
    /\ \E reachable \in BOOLEAN :
         rl' = IF me.current_count # 0 /\ me.current_count >= max_requests
               THEN [rl EXCEPT !.callers[c] = AllowReturned(c, "False", FALSE)]
               ELSE IF ~ reachable
               THEN [rl EXCEPT !.failopen[me.key] =
                                   IF on_redis_error = "True" /\ rl.bounded
                                   THEN @ + 1 ELSE @,
                               !.callers[c] =
                                   AllowReturned(c, on_redis_error, TRUE)]
               ELSE [rl EXCEPT !.redis[me.key] =
                                   IF me.current_count = 0 THEN 1 ELSE @ + 1,
                               !.allowed[me.key] =
                                   IF rl.bounded THEN @ + 1 ELSE @,
                               !.callers[c] = AllowReturned(c, "True", FALSE)]
    /\ UNCHANGED <<questions, agent_responses, wk, postCount, env, crawlv, call, ad>>

\* wait_if_needed lines 60-62: a refusal is followed by sleep(1) and another
\* call of is_allowed; everything else goes back to the caller
rl_return(c) ==
    LET me == rl.callers[c] IN
    /\ me.pc = "returned"
    /\ rl' = [rl EXCEPT !.callers[c] =
                IF me.op = "wait_if_needed" /\ me.ret = "False"
                THEN [IdleCaller EXCEPT !.pc = "sleep", !.op = me.op]
                ELSE IdleCaller]
    /\ UNCHANGED <<questions, agent_responses, wk, postCount, env, crawlv, call, ad>>

\* time.sleep(1) is over
rl_wake(c) ==
    /\ rl.callers[c].pc = "sleep"
    /\ rl' = [rl EXCEPT !.callers[c] = [@ EXCEPT !.pc = "get"]]
    /\ UNCHANGED <<questions, agent_responses, wk, postCount, env, crawlv, call, ad>>

\* The clock reaches the next minute.  The key of a minute expires 60
\* seconds after its setex (line 42), so it is gone when that minute's
\* number comes round again
rl_tick ==
    /\ rl.bounded => rl.now < NumWindows
    /\ rl' = IF rl.bounded
             THEN [rl EXCEPT !.now = @ + 1]
             ELSE [rl EXCEPT !.now = (rl.now % NumWindows) + 1,
                             !.redis[(rl.now % NumWindows) + 1] = 0]
    /\ UNCHANGED <<questions, agent_responses, wk, postCount, env, crawlv, call, ad>>

----------------------------------------------------------------------------
(* Source adapters: reddit_crawler.py and quora_crawler.py.  One adapter      *)
(* carries out one operation; every call that goes to the platform or to the  *)
(* browser driver is one step and may raise.                                  *)

MaxSources == 2

\* self.subreddits of a RedditCrawler, self.topics of a QuoraCrawler
SourceList == [i \in 1..MaxSources |-> i]

\* self.search_queries: none under the defaults, some for a market
QueryLists == { <<>>, <<"q">>, <<"q", "r">> }

AdapterOps ==
    { <<"reddit", "fetch_questions">>, <<"reddit", "fetch_comments">>,
      <<"reddit", "post_response">>, <<"quora", "fetch_questions">>,
      <<"quora", "post_response">> }

IdleAdapter ==
    [pc |-> "idle", platform |-> "none", op |-> "none",
     sources |-> <<>>, source |-> 0, search_queries |-> <<>>, queries |-> <<>>,
     new_posts |-> <<>>, all_questions |-> <<>>, driver |-> "none", ret |-> "none",
     \* history: _wait_for_rate_limit has returned and no platform call was
     \* made since; some platform call was made without that; the sources
     \* whose turn came; the posts the platform calls returned; a driver was
     \* launched
     slot |-> FALSE, unslotted |-> FALSE, attempted |-> <<>>,
     gathered |-> <<>>, opened |-> FALSE]

RECURSIVE unique_posts(_, _)
\* reddit fetch_questions lines 103-108: the posts in order, each id once
unique_posts(new_posts, seen_ids) ==
    IF new_posts = <<>> THEN <<>>
    ELSE IF Head(new_posts) \in seen_ids
    THEN unique_posts(Tail(new_posts), seen_ids)
    ELSE <<Head(new_posts)>>
         \o unique_posts(Tail(new_posts), seen_ids \cup {Head(new_posts)})

\* BaseCrawler._wait_for_rate_limit has returned
Waited(rec) == [rec EXCEPT !.slot = TRUE]

\* A call that goes to the platform is made
Requested(rec) == [rec EXCEPT !.unslotted = @ \/ ~ rec.slot, !.slot = FALSE]

\* The head of the loop over the subreddits (line 78) or the topics (line 74)
NextSource(rec) ==
    IF rec.sources = <<>>
    THEN [rec EXCEPT !.pc = IF rec.platform = "quora" THEN "qf_close" ELSE "done",
                     !.ret = "list"]
    ELSE [rec EXCEPT !.pc = IF rec.platform = "quora" THEN "qf_wait" ELSE "rf_wait",
                     !.source = Head(rec.sources), !.sources = Tail(rec.sources),
                     !.attempted = Append(@, Head(rec.sources)),
                     !.new_posts = <<>>, !.queries = rec.search_queries]

\* Variant: the first failing subreddit or topic ends the loop
after_source_error_break(rec) == NextSource([rec EXCEPT !.sources = <<>>])

\* reddit lines 124-126, quora lines 97-99: log and continue
after_source_error(rec) == NextSource(rec)

\* Variant: the search is made without _wait_for_rate_limit
before_search_no_wait(rec) == [rec EXCEPT !.pc = "rf_search"]

\* reddit lines 90-92: the next search query begins with _wait_for_rate_limit
before_search(rec) == [rec EXCEPT !.pc = "rf_qwait"]

\* Variant: _close_driver leaves the driver as it is
close_driver_omitted(driver) == driver

\* QuoraCrawler._close_driver
close_driver(driver) == "none"

\* An operation of a fresh adapter begins
StartAdapter(platform, op, search_queries) ==
    /\ ad.pc = "idle"
    /\ <<platform, op>> \in AdapterOps
    /\ platform = "quora" \/ op # "fetch_questions" => search_queries = <<>>
    /\ LET rec == [IdleAdapter EXCEPT !.platform = platform, !.op = op,
                                      !.sources = SourceList,
                                      !.search_queries = search_queries]
       IN ad' = CASE op = "fetch_questions" /\ platform = "reddit" -> NextSource(rec)
                  [] op = "fetch_questions" /\ platform = "quora" ->
                         [rec EXCEPT !.pc = "qf_init"]
                  [] op = "fetch_comments" -> [rec EXCEPT !.pc = "rc_wait"]
                  [] platform = "reddit" -> [rec EXCEPT !.pc = "rp_wait"]
                  [] OTHER -> [rec EXCEPT !.pc = "qp_init"]
    /\ UNCHANGED <<questions, agent_responses, wk, postCount, env, crawlv, call, rl>>

\* _wait_for_rate_limit: reddit lines 80, 92, 142, 180; quora lines 76, 217
ad_wait ==
    /\ ad.pc \in {"rf_wait", "rf_qwait", "rc_wait", "rp_wait", "qf_wait", "qp_wait"}
    /\ ad' = [Waited(ad) EXCEPT !.pc =
                CASE ad.pc = "rf_wait"  -> "rf_new"
                  [] ad.pc = "rf_qwait" -> "rf_search"
                  [] ad.pc = "rc_wait"  -> "rc_fetch"
                  [] ad.pc = "rp_wait"  -> "rp_reply"
                  [] ad.pc = "qf_wait"  -> "qf_get"
                  [] OTHER              -> "qp_get"]
    /\ UNCHANGED <<questions, agent_responses, wk, postCount, env, crawlv, call, rl>>

\* reddit fetch_questions lines 82-89: subreddit.new, one post or an exception
rf_new ==
    /\ ad.pc = "rf_new"
    /\ \E raises \in BOOLEAN :
         ad' = IF raises THEN after_source_error(Requested(ad))
               ELSE LET post == <<ad.source, "new">>
                        got == [Requested(ad) EXCEPT !.new_posts = <<post>>,
                                                     !.gathered = Append(@, post)]
                    IN IF ad.queries # <<>> THEN before_search(got)
                       ELSE [got EXCEPT !.pc = "rf_convert"]
    /\ UNCHANGED <<questions, agent_responses, wk, postCount, env, crawlv, call, rl>>

\* lines 93-100: subreddit.search; it returns a post of its own or the post
\* subreddit.new returned, or it raises and the query is given up
rf_search ==
    /\ ad.pc = "rf_search"
    /\ \E result \in {"raise", "fresh", "same"} :
         LET post == IF result = "fresh" THEN <<ad.source, Head(ad.queries)>>
                     ELSE <<ad.source, "new">>
             got == IF result = "raise" THEN Requested(ad)
                    ELSE [Requested(ad) EXCEPT
                              !.new_posts = Append(@, post),
                              !.gathered = IF result = "fresh"
                                           THEN Append(@, post) ELSE @]
             rest == [got EXCEPT !.queries = Tail(@)]
         IN ad' = IF rest.queries # <<>> THEN before_search(rest)
                  ELSE [rest EXCEPT !.pc = "rf_convert"]
    /\ UNCHANGED <<questions, agent_responses, wk, postCount, env, crawlv, call, rl>>

\* lines 102-122: the distinct posts become drafts
rf_convert ==
    /\ ad.pc = "rf_convert"
    /\ ad' = NextSource([ad EXCEPT !.all_questions =
                                       @ \o unique_posts(ad.new_posts, {})])
    /\ UNCHANGED <<questions, agent_responses, wk, postCount, env, crawlv, call, rl>>

\* reddit fetch_comments lines 144-166
rc_fetch ==
    /\ ad.pc = "rc_fetch"
    /\ \E raises \in BOOLEAN :
         ad' = [Requested(ad) EXCEPT !.pc = "done", !.ret = "list"]
    /\ UNCHANGED <<questions, agent_responses, wk, postCount, env, crawlv, call, rl>>

\* reddit post_response lines 182-190: submission.reply
rp_reply ==
    /\ ad.pc = "rp_reply"
    /\ \E raises \in BOOLEAN :
         ad' = [Requested(ad) EXCEPT !.pc = "done",
                                     !.ret = IF raises THEN "False" ELSE "True"]
    /\ UNCHANGED <<questions, agent_responses, wk, postCount, env, crawlv, call, rl>>

\* QuoraCrawler._init_driver as called at line 72 (an exception leaves
\* fetch_questions through the finally clause) and at line 216 (an exception
\* is caught at line 229)
ad_init_driver ==
    /\ ad.pc \in {"qf_init", "qp_init"}
    /\ \E raises \in BOOLEAN :
         ad' = IF raises
               THEN [ad EXCEPT !.pc = IF ad.pc = "qf_init" THEN "qf_close"
                                                            ELSE "qp_close",
                               !.ret = IF ad.pc = "qf_init" THEN "raised"
                                                             ELSE "False"]
               ELSE IF ad.pc = "qf_init"
               THEN NextSource([ad EXCEPT !.driver = "open", !.opened = TRUE])
               ELSE [ad EXCEPT !.driver = "open", !.opened = TRUE,
                               !.pc = "qp_wait"]
    /\ UNCHANGED <<questions, agent_responses, wk, postCount, env, crawlv, call, rl>>

\* quora fetch_questions lines 79-99: the topic page is loaded, scrolled and
\* read; an exception anywhere gives the topic up
qf_get ==
    /\ ad.pc = "qf_get"
    /\ \E raises \in BOOLEAN :
         ad' = IF raises THEN after_source_error(Requested(ad))
               ELSE LET post == <<ad.source, "topic">> IN
                    NextSource([Requested(ad) EXCEPT
                                    !.all_questions = Append(@, post),
                                    !.gathered = Append(@, post)])
    /\ UNCHANGED <<questions, agent_responses, wk, postCount, env, crawlv, call, rl>>

\* quora post_response lines 220-231: the question page is loaded; posting
\* itself is not implemented and False is returned
qp_get ==
    /\ ad.pc = "qp_get"
    /\ \E raises \in BOOLEAN :
         ad' = [Requested(ad) EXCEPT !.pc = "qp_close", !.ret = "False"]
    /\ UNCHANGED <<questions, agent_responses, wk, postCount, env, crawlv, call, rl>>

\* the finally clauses of lines 101-102 and 232-233
ad_close_driver ==
    /\ ad.pc \in {"qf_close", "qp_close"}
    /\ ad' = [ad EXCEPT !.driver = close_driver(ad.driver), !.pc = "done"]
    /\ UNCHANGED <<questions, agent_responses, wk, postCount, env, crawlv, call, rl>>

\* The operation has returned or raised; the adapter is dropped
AdapterReturn ==
    /\ ad.pc = "done"
    /\ ad' = IdleAdapter
    /\ UNCHANGED <<questions, agent_responses, wk, postCount, env, crawlv, call, rl>>

----------------------------------------------------------------------------

\* Empty tables, idle workers and crawl runs
Boot ==
    /\ questions = {}
    /\ agent_responses = {}
    /\ wk = [w \in Workers |-> IdleWorker]
    /\ postCount = [q \in QIds |-> 0]
    /\ cr = [c \in Crawlers |-> IdleCrawler]
    /\ crawl_logs = <<>>
    /\ ad = IdleAdapter

Init ==
    /\ Boot
    /\ auto_post_enabled \in BOOLEAN
    /\ mulan_generate \in GenerationReplies
    /\ call = NoCall
    /\ RateInit

Next ==
    \/ \E d \in IngestPool : StoreQuestion(d)
    \/ \E w \in Workers, q \in QIds : StartProcess(w, q)
    \/ \E w \in Workers : process_question(w)
    \/ \E w \in Workers, q \in QIds : StartCheck(w, q)
    \/ \E w \in Workers : check_question(w)
    \/ \E w \in Workers : StartSweep(w)
    \/ \E w \in Workers : sw_next(w)
    \/ \E w \in Workers : sw_ignore(w)
    \/ \E w \in Workers : sw_after_process(w)
    \/ \E w \in Workers : process_pending_questions(w)
    \/ \E w \in Workers : Return(w)

Spec == Init /\ [][Next]_vars

\* Crawl runs alone, under the default settings
CrawlInit ==
    /\ Init
    /\ auto_post_enabled = FALSE
    /\ mulan_generate = "text"

CrawlNext ==
    \/ \E c \in Crawlers, platform \in CrawlPlatforms, market \in CrawlMarkets :
           StartCrawl(c, platform, market)
    \/ \E c \in Crawlers, market \in MarketRuns : StartMarketCrawl(c, market)
    \/ \E c \in Crawlers : cm_next(c)
    \/ \E c \in Crawlers : cp_check_exists(c)
    \/ \E c \in Crawlers : cp_check_hash(c)
    \/ \E c \in Crawlers : cp_create(c)
    \/ \E c \in Crawlers : cp_log(c)
    \/ \E c \in Crawlers : ReturnCrawl(c)

CrawlSpec == CrawlInit /\ [][CrawlNext]_vars

\* The helpers alone, each called once on every argument
UtilInit ==
    /\ Boot
    /\ auto_post_enabled = FALSE
    /\ mulan_generate = "text"
    /\ Calls(call)
    /\ RateInit

UtilNext ==
    \/ apply_format_response
    \/ apply_workflow_link
    \/ apply_generate_content_hash
    \/ apply_is_relevant
    \/ apply_quora_extracts

UtilSpec == UtilInit /\ [][UtilNext]_vars

\* Callers of the rate limiter alone
RateNext ==
    \/ \E c \in Callers, op \in {"is_allowed", "wait_if_needed"} : rl_start(c, op)
    \/ \E c \in Callers : rl_get(c)
    \/ \E c \in Callers : rl_decide(c)
    \/ \E c \in Callers : rl_return(c)
    \/ \E c \in Callers : rl_wake(c)
    \/ rl_tick

RateSpec == CrawlInit /\ [][RateNext]_vars

\* Callers of the rate limiter in a run without end.  Every caller that has
\* begun a call goes on taking steps and the clock goes on: that much the
\* scheduling of processes gives, and no more; nothing in the code orders
\* the callers among themselves
\* One source adapter alone
AdapterNext ==
    \/ \E o \in AdapterOps, search_queries \in QueryLists :
           StartAdapter(o[1], o[2], search_queries)
    \/ ad_wait
    \/ rf_new
    \/ rf_search
    \/ rf_convert
    \/ rc_fetch
    \/ rp_reply
    \/ ad_init_driver
    \/ qf_get
    \/ qp_get
    \/ ad_close_driver
    \/ AdapterReturn

AdapterSpec == CrawlInit /\ [][AdapterNext]_vars

RateLiveInit ==
    /\ Boot
    /\ auto_post_enabled = FALSE
    /\ mulan_generate = "text"
    /\ call = NoCall
    /\ rl = [bounded |-> FALSE, now |-> 1,
             redis |-> [k \in Windows |-> 0],
             callers |-> [c \in Callers |-> IdleCaller],
             calls |-> 0,
             allowed |-> [k \in Windows |-> 0],
             failopen |-> [k \in Windows |-> 0]]

RateFairness ==
    /\ \A c \in Callers :
           WF_vars(rl_get(c) \/ rl_decide(c) \/ rl_return(c) \/ rl_wake(c))
    /\ WF_vars(rl_tick)

RateLiveSpec == RateLiveInit /\ [][RateNext]_vars /\ RateFairness

\* The pipeline in a run without end.  A task or request that has begun goes
\* on taking steps until it has returned, and celery beat puts the sweep in
\* the queue every thirty minutes (celery_app.py, "process-pending-questions"),
\* where a worker that has become free takes it: the sweep is started again
\* and again, whatever else the workers are given to do
SweepFairness ==
    /\ \A w \in Workers :
           WF_vars(process_question(w) \/ check_question(w) \/ sw_next(w)
                   \/ sw_ignore(w) \/ sw_after_process(w) \/ Return(w))
    /\ SF_vars(\E w \in Workers : StartSweep(w))

SweepLiveSpec == Init /\ [][Next]_vars /\ SweepFairness

\* ---------------------------------------------------------------------
\* Properties
\* ---------------------------------------------------------------------

Last(seq) == seq[Len(seq)]

\* An invocation of process_question by worker w has returned
ProcessReturned(w) == wk[w].pc = "pq_return" /\ wk[w].question # {}

\* The minimum confidence the specification calls effective for a question:
\* the override of the market it was crawled for, else the default
EffectiveMinConfidence(question) ==
    IF question.adapter_market \in MarketNames
    THEN MarketMinConfidence[question.adapter_market]
    ELSE min_confidence_score

\* The Verdict worker w loaded is in scope with a confidence at or above the
\* effective minimum of the question it loaded
PassingVerdict(w) ==
    \E x \in wk[w].question : \E r \in wk[w].agent_response :
        r.is_in_scope /\ r.confidence_score >= EffectiveMinConfidence(x)

C2_ExactlyOneReachesPosting ==
    \A w1, w2 \in Workers :
        ( /\ w1 # w2
          /\ auto_post_enabled
          /\ mulan_generate = "text"
          /\ ProcessReturned(w1) /\ ProcessReturned(w2)
          /\ wk[w1].op = "process" /\ wk[w2].op = "process"
          /\ wk[w1].q = wk[w2].q
          /\ \A x \in wk[w1].question \cup wk[w2].question :
                 x.status = "pending" /\ x.platform = "reddit"
          /\ PassingVerdict(w1) /\ PassingVerdict(w2) )
        => \/ wk[w1].reachedPost /\ ~ wk[w2].reachedPost /\ wk[w2].written = <<>>
           \/ wk[w2].reachedPost /\ ~ wk[w1].reachedPost /\ wk[w1].written = <<>>

\* C3: a question without a Verdict is never in status processing, and
\* process_question on it returns False without writing any status
C3_NoVerdictNeverProcessing ==
    /\ \A x \in questions :
           x.status = "processing" => get_agent_response(x.id) # {}
    /\ \A w \in Workers :
           (ProcessReturned(w) /\ wk[w].agent_response = {})
           => wk[w].written = <<>> /\ wk[w].ret = "False"

\* process_question has returned on a stored question that has no Verdict
C3_Witness ==
    \E w \in Workers :
        /\ ProcessReturned(w)
        /\ wk[w].op = "process"
        /\ wk[w].agent_response = {}
        /\ get_agent_response(wk[w].q) = {}

\* C4: a question whose Verdict is out of scope is never answered, and
\* process_question on it writes ignored, generates and posts nothing and
\* returns False
C4_OutOfScopeNeverAnswered ==
    /\ \A x \in questions : \A r \in get_agent_response(x.id) :
           ~ r.is_in_scope => x.status # "answered"
    /\ \A w \in Workers :
           (ProcessReturned(w) /\ \E r \in wk[w].agent_response : ~ r.is_in_scope)
           => /\ wk[w].written = <<"ignored">>
              /\ ~ wk[w].reachedGenerate
              /\ ~ wk[w].reachedPost
              /\ wk[w].ret = "False"
              /\ postCount[wk[w].q] = 0

\* process_question has returned on a question whose stored Verdict is out
\* of scope, and the question is now ignored
C4_Witness ==
    \E w \in Workers :
        /\ ProcessReturned(w)
        /\ \E r \in get_agent_response(wk[w].q) : ~ r.is_in_scope
        /\ \E r \in wk[w].agent_response : ~ r.is_in_scope
        /\ \E x \in get_question(wk[w].q) : x.status = "ignored"

\* C5: after any crawl runs no two stored questions share (platform, post
\* id); a draft whose key is already stored is skipped, so the first stays
C5_UniquePlatformPostId ==
    \A x, y \in questions :
        (x.platform = y.platform /\ x.post_id = y.post_id) => x = y

\* A crawl run has met a draft whose (platform, post id) was already stored
\* and has counted it as a duplicate
C5_Witness ==
    \E c \in Crawlers :
        /\ cr[c].duplicate_count >= 1
        /\ questions # {}

\* C6: after any crawl runs no two stored questions have the same content
\* fingerprint: a draft whose fingerprint is already stored is rejected
C6_UniqueFingerprint ==
    \A x, y \in questions :
        generate_content_hash(x.content) = generate_content_hash(y.content)
        => x = y

\* C7: the in-scope flag of the Verdict check_question produces equals
\* (service.is_in_scope and service.confidence >= effective minimum), the
\* effective minimum being the market's override when the question's market
\* has one and the default otherwise
C7_VerdictUsesEffectiveMinimum ==
    \A w \in Workers :
        \A a \in wk[w].analysis : \A r \in wk[w].agent_response :
            \A x \in get_question(wk[w].q) :
                r.is_in_scope =
                    (a.is_in_scope
                     /\ a.confidence_score >= EffectiveMinConfidence(x))

\* C8: process_question on an in-scope Verdict writes processing and goes on
\* to generation when the confidence is at least the effective minimum, and
\* writes ignored without generating when it is below
C8_GateUsesEffectiveMinimum ==
    \A w \in Workers :
        (ProcessReturned(w) /\ \E r \in wk[w].agent_response : r.is_in_scope)
        => IF PassingVerdict(w)
           THEN /\ wk[w].written # <<>>
                /\ wk[w].written[1] = "processing"
                /\ wk[w].reachedGenerate
           ELSE /\ wk[w].written = <<"ignored">>
                /\ ~ wk[w].reachedGenerate

C10_AutoPostDisabledAnswers ==
    \A w \in Workers :
        (ProcessReturned(w) /\ PassingVerdict(w)
         /\ ~ auto_post_enabled /\ mulan_generate = "text")
        => /\ wk[w].written # <<>>
           /\ Last(wk[w].written) = "answered"
           /\ ~ wk[w].reachedPost
           /\ \A r \in get_agent_response(wk[w].q) :
                  ~ r.posted /\ r.posted_at = "NULL"

RECURSIVE Count(_, _)
\* How many pieces of text are piece
Count(text, piece) ==
    IF text = <<>> THEN 0
    ELSE (IF Head(text) = piece THEN 1 ELSE 0) + Count(Tail(text), piece)

C13_AcceptanceRule ==
    (call.fn \in {"_is_relevant", "_extract_questions_from_page"} /\ call.done)
    => call.result =
           ( /\ call.submission.age_hours <= MaxAgeDays * 24
             /\ call.submission.score >= call.min_upvotes
             /\ (call.keywords => call.submission.has_keyword) )

\* Normalisation as the specification words it: lowercase, trim, collapse
\* every whitespace run to one space
LowerCase(c) == CASE c = "A" -> "a" [] c = "B" -> "b" [] OTHER -> c

Blank(c) == c \in {" ", "TAB"}

RECURSIVE Trim(_)
Trim(text) ==
    IF text = <<>> THEN text
    ELSE IF Blank(Head(text)) THEN Trim(Tail(text))
    ELSE IF Blank(text[Len(text)]) THEN Trim(SubSeq(text, 1, Len(text) - 1))
    ELSE text

RECURSIVE CollapseRuns(_)
CollapseRuns(text) ==
    IF text = <<>> THEN text
    ELSE IF Blank(Head(text))
    THEN IF Len(text) >= 2 /\ Blank(text[2]) THEN CollapseRuns(Tail(text))
         ELSE <<" ">> \o CollapseRuns(Tail(text))
    ELSE <<Head(text)>> \o CollapseRuns(Tail(text))

SpecNormal(text) ==
    CollapseRuns(Trim([i \in 1..Len(text) |-> LowerCase(text[i])]))

Terminal == {"answered", "ignored", "error"}

\* C15: every step keeps to pending -> processing -> {answered, ignored,
\* error}: a new row starts in pending, processing is entered only from
\* pending, and a question in answered, ignored or error keeps its status
C15_StatusLifecycle ==
    [][ \A y \in questions' :
          IF \E x \in questions : x.id = y.id
          THEN \A x \in questions :
                   (x.id = y.id /\ x.status # y.status)
                   => /\ y.status = "processing" => x.status = "pending"
                      /\ x.status \notin Terminal
          ELSE y.status = "pending" ]_vars

\* C16: every question has at most one stored Verdict and every stored
\* Verdict belongs to a stored question, however often and however
\* concurrently the question is checked
C16_OneVerdictPerQuestion ==
    /\ \A a, b \in agent_responses : a.question_id = b.question_id => a = b
    /\ \A a \in agent_responses : get_question(a.question_id) # {}

\* A check of a question that already had a Verdict has returned: its
\* insert was rejected and the stored Verdict is still the only one
C16_Witness ==
    \E w \in Workers :
        /\ wk[w].analysis # {}
        /\ \E r \in wk[w].agent_response :
               /\ r \notin agent_responses
               /\ get_agent_response(r.question_id) # {}

\* An exception was raised inside the invocation of process_question that
\* worker w has finished: the lookup of question.market of line 178
RaisedInside(w) ==
    /\ ProcessReturned(w)
    /\ \E r \in wk[w].agent_response : r.is_in_scope
    /\ \E x \in wk[w].question : question_market(x) = "AttributeError"

\* C17: process_question never raises to its caller, and when an exception
\* is raised inside it, it returns False and writes status error last
C17_ExceptionsCaught ==
    \A w \in Workers :
        /\ ProcessReturned(w) => wk[w].ret \in {"True", "False"}
        /\ RaisedInside(w)
           => /\ wk[w].ret = "False"
              /\ wk[w].written # <<>>
              /\ Last(wk[w].written) = "error"

\* An invocation in which question.market raised has returned and the
\* question is in error
C17_Witness ==
    \E w \in Workers :
        /\ RaisedInside(w)
        /\ wk[w].op = "process"
        /\ \E x \in get_question(wk[w].q) : x.status = "error"

\* C18: crawl_platform never raises to its caller: a failure to build or
\* run the adapter ends the run with an empty or error result
C18_CrawlNeverRaises ==
    \A c \in Crawlers : cr[c].pc = "done" => cr[c].result # "raised"

\* C19: when the call of the scoring service fails, check_question returns
\* a Verdict that is out of scope, has confidence 0 and carries the error
\* text in its error message
C19_ScoringFailureRecorded ==
    \A w \in Workers :
        \A a \in wk[w].analysis : \A r \in wk[w].agent_response :
            a.failed => /\ ~ r.is_in_scope
                        /\ r.confidence_score = 0
                        /\ r.error_message # "NULL"

\* C20: for every minute key, the calls of is_allowed that return True
\* while Redis is reachable never exceed max_requests, under any
\* interleaving of concurrent callers
C20_RateLimitRespected ==
    \A k \in Windows : rl.allowed[k] <= max_requests

\* C21: when Redis fails during is_allowed the call returns True, and
\* wait_if_needed goes to sleep only after a refusal made with Redis
\* reachable, so an outage never blocks a crawler
C21_FailsOpen ==
    \A c \in Callers :
        /\ (rl.callers[c].pc = "returned" /\ rl.callers[c].failed)
           => rl.callers[c].ret = "True"
        /\ (rl.callers[c].pc = "returned" /\ rl.callers[c].ret = "False")
           => ~ rl.callers[c].failed

\* A call of is_allowed made by wait_if_needed has met a Redis error and
\* has returned True
C21_Witness ==
    \E c \in Callers :
        /\ rl.callers[c].pc = "returned"
        /\ rl.callers[c].op = "wait_if_needed"
        /\ rl.callers[c].failed
        /\ rl.callers[c].ret = "True"
        /\ \E k \in Windows : rl.failopen[k] > 0

\* C22: a finished run has appended one CrawlLog for every (platform, market)
\* pair it was to crawl: one for a crawl_platform run and one per configured
\* platform for a crawl_market run, whether the crawl succeeded or failed
C22_OneCrawlLogPerPair ==
    \A c \in Crawlers :
        cr[c].pc = "done" =>
            /\ cr[c].op = "crawl_platform" => cr[c].logged = 1
            /\ (cr[c].op = "crawl_market" /\ get_market_config(cr[c].market) # {})
               => cr[c].logged = Len(MarketPlatforms[cr[c].market])

\* C23: the step by which process_question returns on a missing Question or
\* a missing Verdict returns False and leaves the stored questions, the
\* stored Verdicts and the platforms untouched, and the invocation it ends
\* has written no status and has reached neither generation nor posting
C23_MissingInputChangesNothing ==
    [][ \A w \in Workers :
          ( /\ wk[w].pc \in {"pq_get_question", "pq_gate"}
            /\ wk'[w].pc = "pq_return"
            /\ wk'[w].question = {} \/ wk'[w].agent_response = {} )
          => /\ wk'[w].ret = "False"
             /\ UNCHANGED <<questions, agent_responses, postCount>>
             /\ wk'[w].written = <<>>
             /\ ~ wk'[w].reachedGenerate
             /\ ~ wk'[w].reachedPost ]_vars

\* process_question has returned False on an id that no stored question has
C23_Witness ==
    \E w \in Workers :
        /\ wk[w].pc = "pq_return"
        /\ wk[w].op = "process"
        /\ wk[w].question = {}
        /\ get_question(wk[w].q) = {}
        /\ wk[w].ret = "False"

\* C24: with auto-post enabled and a generation that succeeds, an invocation
\* of process_question on a passing Verdict of a reddit question calls the
\* adapter, and when the adapter's post succeeded the invocation's last
\* status write is answered and the stored Verdict is posted with posted_at
\* set
C24_PostSuccessEndsAnswered ==
    \A w \in Workers :
        (ProcessReturned(w) /\ PassingVerdict(w)
         /\ auto_post_enabled /\ mulan_generate = "text"
         /\ \E x \in wk[w].question : x.platform = "reddit")
        => /\ wk[w].reachedPost
           /\ wk[w].posted =>
                /\ Last(wk[w].written) = "answered"
                /\ wk[w].ret = "True"
                /\ \A r \in get_agent_response(wk[w].q) :
                       r.posted /\ r.posted_at # "NULL"

\* C25: once process_question on a passing Verdict is past a generation that
\* succeeds (it is at a posting step or has returned), the stored Verdict
\* holds the formatted text, which ends with the disclosure
C25_FormattedTextStoredBeforePost ==
    \A w \in Workers :
        ( /\ \/ ProcessReturned(w)
             \/ wk[w].pc \in {"pq_post", "pq_post_status", "pq_mark_posted"}
          /\ PassingVerdict(w)
          /\ mulan_generate = "text" )
        => \E r \in get_agent_response(wk[w].q) :
               /\ r.response_text # NULL
               /\ Last(r.response_text) = Disclosure

\* The link the specification names for a reply: the Verdict's own link,
\* else the first link of the market whose key occurs in the question, else
\* the market's first link, else the generic link
SpecWorkflowLink(verdict_link, market, question_text) ==
    IF verdict_link # <<>> THEN verdict_link
    ELSE IF market \in MarketNames /\ WorkflowExamples[market] # <<>>
    THEN LET examples == WorkflowExamples[market]
             hits == {i \in 1..Len(examples) :
                          occurs_in(examples[i][1], lower(question_text))}
         IN IF hits # {}
            THEN <<examples[CHOOSE i \in hits : \A j \in hits : i <= j][2]>>
            ELSE <<examples[1][2]>>
    ELSE <<"https://app.mulan.ai">>

\* C26: the link chosen for a reply is the Verdict's link if it has one, else
\* the first market link whose key occurs in the question text, else the
\* market's first link, else, for an unknown market, the generic link
C26_WorkflowLinkOrder ==
    (call.fn = "workflow_link" /\ call.done)
    => call.result = SpecWorkflowLink(call.verdict_link, call.market,
                                      call.question_text)

\* C27: process_pending_questions runs process_question on every pending
\* question it finds with an in-scope Verdict, so it comes back without
\* having run process_question only when the store holds no such question
C27_PendingSweepProcessesLoaded ==
    [][ \A w \in Workers :
          ( /\ wk[w].pc = "idle"
            /\ wk'[w].op = "process_pending"
            /\ wk'[w].pc = "done" )
          => ~ \E x \in questions :
                   /\ x.status = "pending"
                   /\ \E r \in get_agent_response(x.id) : r.is_in_scope ]_vars

\* C28: no exception escapes the adapter call (BaseCrawler.crawl catches what
\* fetch_questions raises), so every CrawlLog has status success, also when
\* the fetch raised or drafts failed to persist; items_found is the number
\* of drafts the adapter call returned (none when the fetch raised) and
\* items_stored the number of rows the run inserted
C28_CrawlLogStatusAndCounts ==
    \A i \in 1..Len(crawl_logs) :
        LET entry == crawl_logs[i] IN
        /\ entry.status = "success"
        /\ entry.items_stored = entry.persisted
        /\ entry.items_stored <= entry.items_found
        /\ entry.fetch_raised => entry.items_found = 0

\* The CrawlLog of a run whose only draft passed both duplicate checks and
\* then failed to persist: status success, one found, none stored
C28_Witness ==
    \E c \in Crawlers :
        /\ cr[c].pc = "done" /\ cr[c].result = "ok"
        /\ cr[c].items_found = 1
        /\ cr[c].duplicate_count = 0 /\ cr[c].persisted = 0
        /\ \E i \in 1..Len(crawl_logs) :
               /\ crawl_logs[i].status = "success"
               /\ crawl_logs[i].items_found = 1
               /\ crawl_logs[i].items_stored = 0
               /\ ~ crawl_logs[i].fetch_raised

\* C29: between two drafts and at the end of a crawl_platform run every
\* draft taken from the fetched list is counted exactly once, as stored, as
\* duplicate or as failed to persist, so stored_count + duplicate_count never
\* exceeds items_found; a draft stopped by the (platform, post_id) check gets
\* no content hash lookup and no create_question call, and create_question
\* is called only after a content hash lookup
C29_EachDraftCountedOnce ==
    \A c \in Crawlers :
        cr[c].pc \in {"cp_check_exists", "cm_next", "done"} =>
            LET taken == cr[c].items_found - Len(cr[c].questions)
                failed == cr[c].create_calls - cr[c].persisted
            IN /\ cr[c].stored_count + cr[c].duplicate_count + failed = taken
               /\ cr[c].stored_count + cr[c].duplicate_count <= cr[c].items_found
               /\ cr[c].hash_checks = taken - cr[c].id_hits
               /\ cr[c].create_calls =
                      cr[c].hash_checks - (cr[c].duplicate_count - cr[c].id_hits)

\* A finished run with two drafts: one stopped by the (platform, post_id)
\* check, the other looked up by content hash
C29_Witness ==
    \E c \in Crawlers :
        /\ cr[c].pc = "done" /\ cr[c].result = "ok"
        /\ cr[c].items_found = 2
        /\ cr[c].id_hits = 1
        /\ cr[c].hash_checks = 1

\* C30: a caller of wait_if_needed that has been refused and sleeps is
\* eventually let through: one of the is_allowed calls made for it returns
\* True, whatever the other callers do
C30_BlockedCallerReturns ==
    \A c \in Callers :
        (rl.callers[c].pc = "sleep")
        ~> (rl.callers[c].pc = "returned" /\ rl.callers[c].ret = "True")

C33_StoredQuestionCarriesMarket ==
    \A x \in questions :
        /\ x.adapter_market \in MarketNames
        /\ question_market(x) = x.adapter_market

\* C34: whenever an operation of the quora adapter has returned or raised,
\* no browser driver is open
C34_DriverReleasedOnExit ==
    ad.pc \in {"idle", "done"} => ad.driver = "none"

\* A quora fetch that launched a driver and lost every topic to an exception
\* has returned with the driver closed
C34_Witness ==
    /\ ad.pc = "done" /\ ad.platform = "quora" /\ ad.op = "fetch_questions"
    /\ ad.opened
    /\ ad.attempted = SourceList /\ ad.gathered = <<>>
    /\ ad.driver = "none"

IsPending(question_id) ==
    \E x \in get_question(question_id) : x.status = "pending"

\* C37: under the scheduled sweep run again and again, the sweep has a
\* Verdict in hand (the stored one, or the one it had scored) whenever it
\* processes or ignores a loaded question, the question it has just dealt
\* with is not pending, and every pending question eventually leaves pending
C37_PendingLeavesPending ==
    /\ [](\A w \in Workers :
             wk[w].op = "sweep" =>
                 /\ wk[w].pc \in {"pq_get_question", "sw_ignore"}
                        => wk[w].agent_response # {}
                 /\ (wk[w].pc = "sw_next" /\ wk[w].q # 0)
                        => ~ IsPending(wk[w].q))
    /\ \A q \in QIds : IsPending(q) ~> ~ IsPending(q)

\* The sweep has dealt with a loaded question whose Verdict is in scope: it
\* ran process_question, got False, and the question is in error
C37_Witness ==
    \E w \in Workers :
        /\ wk[w].op = "sweep" /\ wk[w].pc = "sw_next" /\ wk[w].q # 0
        /\ \E r \in wk[w].agent_response : r.is_in_scope
        /\ wk[w].ret = "False" /\ wk[w].written = <<"error">>
        /\ \E x \in get_question(wk[w].q) : x.status = "error"

====
